---- MODULE Spec2Model ----
(***************************************************************************)
(* A model of laburnum's background script (src/laburnum_background.js):   *)
(* date parsing and comparison, the resolution of per-tab dates from tab   *)
(* group titles and from the Heliotropium extension, the date sort and the *)
(* date bucketing of the selected tabs, the grouping calls and the badge.  *)
(*                                                                         *)
(* Text is a sequence of one-character strings.  A JavaScript value held   *)
(* in a date field is a record [t, n, s]: null, a number n, or a string s. *)
(***************************************************************************)
EXTENDS Integers, Sequences, FiniteSets, TLC

VARIABLES
    mode,             \* "pure", "date": functions applied to drawn inputs; "run": one run; "pair": two runs
    tabs,             \* ChromeTab[]: the tabs handed to fetchTabDates / sortTabsByDate
    tabDataMap,       \* Map<tabId, TabDateInfo>
    undatedPlacement, \* 'start' | 'end' | 'preserve'
    engine,           \* the JavaScript engine whose Array.prototype.toSorted runs
    sortedTabs,       \* result of sortTabsByDate
    resortedTabs,     \* result of sortTabsByDate applied to sortedTabs
    tabGroups,        \* result of makeDateTabGroups: entries <<dateKey, tabIds>> in insertion order
    pc,               \* position of the computation
    windowTabs,       \* the host's highlighted tabs of the current window, in window order
    groupLookups,     \* the chrome.tabGroups.get calls of fetchTabGroupDates: group id -> [status, title]
    response,         \* what the call to the Heliotropium extension came to
    raised,           \* an exception has left fetchTabDates
    queryOk,          \* chrome.tabs.query resolved
    groupCalls,       \* the callbacks over Object.entries(tabGroups): [status, tabIds, groupId, title] per bucket
    flashed,          \* the badge flashBadge was asked for: "none", "success" or "failure"
    timer,            \* the setTimeout callback of flashBadge
    entryRaised,      \* an exception has left groupSelectedTabsByDate
    dateCase,         \* two ParsedDate objects and what getComparableDate makes of them
    maps,             \* the Map objects created by createEmptyTabDataMap, by reference
    calls             \* two invocations of groupSelectedTabsByDate in flight together

pureVars == <<undatedPlacement, resortedTabs>>

runVars == <<windowTabs, groupLookups, response, raised>>

groupVars == <<queryOk, groupCalls, flashed, timer, entryRaised>>

auxVars == <<dateCase, maps, calls>>

vars == <<mode, tabs, tabDataMap, undatedPlacement, engine, sortedTabs, resortedTabs, tabGroups, pc,
          windowTabs, groupLookups, response, raised, queryOk, groupCalls, flashed, timer, entryRaised,
          dateCase, maps, calls>>

-----------------------------------------------------------------------------
(* Bounds of the model *)

\* largest number of tabs handed to the sort and to the bucketing
MaxTabs == 3

\* largest number of highlighted tabs in the window of a run
MaxRunTabs == 2

-----------------------------------------------------------------------------
(* JavaScript values *)

JsNull == [t |-> "null", n |-> 0, s |-> <<>>]

Num(k) == [t |-> "num", n |-> k, s |-> <<>>]

Str(cs) == [t |-> "str", n |-> 0, s |-> cs]

DigitChars == <<"0", "1", "2", "3", "4", "5", "6", "7", "8", "9">>

IsDigit(c) == \E d \in 1..10 : DigitChars[d] = c

DigitVal(c) == (CHOOSE d \in 1..10 : DigitChars[d] = c) - 1

RECURSIVE NatToChars(_)
\* String(n) for a non-negative integer
NatToChars(k) ==
    IF k < 10 THEN <<DigitChars[k + 1]>>
    ELSE NatToChars(k \div 10) \o <<DigitChars[(k % 10) + 1]>>

RECURSIVE CharsToNat(_)
\* Number(s) for a string of decimal digits (Number("") is 0)
CharsToNat(cs) ==
    IF cs = <<>> THEN 0
    ELSE 10 * CharsToNat(SubSeq(cs, 1, Len(cs) - 1)) + DigitVal(cs[Len(cs)])

\* ToBoolean: null, 0 and "" are falsy
Truthy(v) ==
    CASE v.t = "null" -> FALSE
      [] v.t = "num" -> v.n # 0
      [] v.t = "str" -> v.s # <<>>

\* ToNumber, on null, numbers and digit strings
ToNumber(v) ==
    CASE v.t = "null" -> 0
      [] v.t = "num" -> v.n
      [] v.t = "str" -> CharsToNat(v.s)

\* ToString as a template literal applies it
ToText(v) ==
    CASE v.t = "null" -> <<"n", "u", "l", "l">>
      [] v.t = "num" -> NatToChars(v.n)
      [] v.t = "str" -> v.s

\* v || 1
OrOne(v) == IF Truthy(v) THEN v ELSE Num(1)

\* a ParsedDate object
MkDate(y, m, d) == [year |-> y, month |-> m, day |-> d]

-----------------------------------------------------------------------------
(* Date parsing utilities *)

\* /(?<year>\d{4})-(?<month>\d{2})-(?<day>\d{2})/ matches text at position i
MatchesAt(text, i) ==
    /\ i + 9 <= Len(text)
    /\ \A k \in {0, 1, 2, 3, 5, 6, 8, 9} : IsDigit(text[i + k])
    /\ text[i + 4] = "-"
    /\ text[i + 7] = "-"

extractDate(text) ==
    IF text = <<>> THEN JsNull
    ELSE IF \E i \in 1..Len(text) : MatchesAt(text, i)
    THEN LET i == CHOOSE j \in 1..Len(text) :
                      MatchesAt(text, j) /\ \A k \in 1..(j - 1) : ~MatchesAt(text, k)
         IN  MkDate(Str(SubSeq(text, i, i + 3)),
                    Str(SubSeq(text, i + 5, i + 6)),
                    Str(SubSeq(text, i + 8, i + 9)))
    ELSE JsNull

\* MakeDay of ECMAScript: the day number of (year, month index, day of month),
\* month index and day of any size, counted from 1970-01-01
MakeDay(year, month, date) ==
    LET ym == year + (month \div 12)
        mn == (month % 12) + 1
        y  == IF mn <= 2 THEN ym - 1 ELSE ym
        era == y \div 400
        yoe == y - era * 400
        mp == IF mn > 2 THEN mn - 3 ELSE mn + 9
        doy == (153 * mp + 2) \div 5
        doe == yoe * 365 + (yoe \div 4) - (yoe \div 100) + doy
    IN  era * 146097 + doe - 719468 + (date - 1)

\* Date.UTC(year, month, day) in days: a year of 0..99 means 1900 + year
DateUTC(year, month, date) ==
    MakeDay(IF 0 <= year /\ year <= 99 THEN 1900 + year ELSE year, month, date)

\* a variant without the defaults: a missing month or day is converted as it is
getComparableDateNoDefaults(dateObj) ==
    IF dateObj = JsNull \/ dateObj.year = JsNull THEN JsNull
    ELSE [days |-> DateUTC(ToNumber(dateObj.year),
                           ToNumber(dateObj.month) - 1,
                           ToNumber(dateObj.day))]

\* a Date object is [days |-> n]; null is JsNull
getComparableDate(dateObj) ==
    IF dateObj = JsNull \/ dateObj.year = JsNull THEN JsNull
    ELSE [days |-> DateUTC(ToNumber(dateObj.year),
                           ToNumber(OrOne(dateObj.month)) - 1,
                           ToNumber(OrOne(dateObj.day)))]

\* no dates drawn
NoDateCase == [a |-> JsNull, b |-> JsNull, ca |-> JsNull, cb |-> JsNull]

-----------------------------------------------------------------------------
(* Tabs and the tab data map *)

TAB_GROUP_ID_NONE == -1

\* tabDataMap.get(id): undefined is JsNull
MapGet(m, id) == IF id \in DOMAIN m THEN m[id] ELSE JsNull

createEmptyTabDataMap(ts) ==
    [id \in {ts[i].id : i \in 1..Len(ts)} |->
        [tabId |-> id, date |-> JsNull, groupId |-> JsNull, groupDate |-> JsNull]]

\* no message has been answered
NoResponse == [kind |-> "none", data |-> <<>>]

\* tabInfo?.groupDate || tabInfo?.date   (an object is truthy)
\* a variant that looks at the individual date first
EffectiveDateOwnFirst(tabInfo) ==
    IF tabInfo = JsNull THEN JsNull
    ELSE IF tabInfo.date # JsNull THEN tabInfo.date
    ELSE tabInfo.groupDate

EffectiveDate(tabInfo) ==
    IF tabInfo = JsNull THEN JsNull
    ELSE IF tabInfo.groupDate # JsNull THEN tabInfo.groupDate
    ELSE tabInfo.date

-----------------------------------------------------------------------------
(* Tab grouping: makeDateTabGroups *)

Dash == <<"-">>

Undated == <<"u", "n", "d", "a", "t", "e", "d">>

\* a variant that writes month and day with at least two digits
DateKeyPadded(date) ==
    LET PadTwo(v) == IF Len(ToText(v)) < 2 THEN <<"0">> \o ToText(v) ELSE ToText(v)
    IN  ToText(date.year) \o Dash \o PadTwo(OrOne(date.month)) \o Dash \o PadTwo(OrOne(date.day))

\* `${date.year}-${date.month || 1}-${date.day || 1}`
DateKey(date) ==
    ToText(date.year) \o Dash \o ToText(OrOne(date.month)) \o Dash \o ToText(OrOne(date.day))

\* date && date.year
HasYear(date) == date # JsNull /\ Truthy(date.year)

\* the key under which makeDateTabGroups files a tab
KeyOfTab(tab, dm) ==
    LET date == EffectiveDate(MapGet(dm, tab.id))
    IN  IF HasYear(date) THEN DateKey(date) ELSE Undated

\* a variant that puts the identifier at the front of its array
PushToFront(groups, key, id) ==
    IF \E i \in 1..Len(groups) : groups[i].key = key
    THEN [i \in 1..Len(groups) |->
             IF groups[i].key = key
             THEN [groups[i] EXCEPT !.tabIds = <<id>> \o @]
             ELSE groups[i]]
    ELSE Append(groups, [key |-> key, tabIds |-> <<id>>])

\* tabGroups[key].push(id), after tabGroups[key] = [] when the key is new
PushTo(groups, key, id) ==
    IF \E i \in 1..Len(groups) : groups[i].key = key
    THEN [i \in 1..Len(groups) |->
             IF groups[i].key = key
             THEN [groups[i] EXCEPT !.tabIds = Append(@, id)]
             ELSE groups[i]]
    ELSE Append(groups, [key |-> key, tabIds |-> <<id>>])

RECURSIVE FileTabs(_, _, _)
\* tabs.forEach(...) over an object that starts as { 'undated': [] }
FileTabs(ts, dm, groups) ==
    IF ts = <<>> THEN groups
    ELSE FileTabs(Tail(ts), dm, PushTo(groups, KeyOfTab(Head(ts), dm), Head(ts).id))

\* a variant that deletes the 'undated' bucket whatever it holds
DropUndatedAlways(groups) == Tail(groups)

\* a variant that never deletes the 'undated' bucket
KeepUndated(groups) == groups

\* delete tabGroups['undated'] when it is empty
DropEmptyUndated(groups) ==
    IF groups[1].tabIds = <<>> THEN Tail(groups) ELSE groups

makeDateTabGroups(ts, dm) ==
    DropEmptyUndated(FileTabs(ts, dm, <<[key |-> Undated, tabIds |-> <<>>]>>))

-----------------------------------------------------------------------------
(* Tab sorting: sortTabsByDate *)

\* the date the comparator derives for a tab: a Date or null
SortDate(tab, dm) ==
    LET tabInfo == MapGet(dm, tab.id)
    IN  IF tabInfo = JsNull THEN JsNull
        ELSE IF tabInfo.groupDate # JsNull THEN getComparableDate(tabInfo.groupDate)
        ELSE getComparableDate(tabInfo.date)

\* a.groupId === b.groupId && a.groupId !== chrome.tabGroups.TAB_GROUP_ID_NONE
SameGroup(a, b) == a.groupId = b.groupId /\ a.groupId # TAB_GROUP_ID_NONE

\* a variant whose 'preserve' leaves a dated and an undated tab in their input order
compareTabsPreserveKeeps(a, b, dm, placement) ==
    LET dateA == SortDate(a, dm)
        dateB == SortDate(b, dm)
    IN  IF dateA # JsNull /\ dateB # JsNull
        THEN IF SameGroup(a, b) THEN a.index - b.index ELSE dateA.days - dateB.days
        ELSE IF dateA = JsNull /\ dateB = JsNull
        THEN IF SameGroup(a, b) THEN a.index - b.index ELSE 0
        ELSE IF placement = "preserve" THEN 0
        ELSE IF dateA = JsNull
        THEN IF placement = "start" THEN -1 ELSE 1
        ELSE IF placement = "start" THEN 1 ELSE -1

\* a variant that tests for 'end' where the code tests for 'start'
compareTabsStartEndSwapped(a, b, dm, placement) ==
    LET dateA == SortDate(a, dm)
        dateB == SortDate(b, dm)
    IN  IF dateA # JsNull /\ dateB # JsNull
        THEN IF SameGroup(a, b) THEN a.index - b.index ELSE dateA.days - dateB.days
        ELSE IF dateA = JsNull /\ dateB = JsNull
        THEN IF SameGroup(a, b) THEN a.index - b.index ELSE 0
        ELSE IF dateA = JsNull
        THEN IF placement = "end" THEN -1 ELSE 1
        ELSE IF placement = "end" THEN 1 ELSE -1

\* a variant that subtracts the dates the other way round
compareTabsLatestFirst(a, b, dm, placement) ==
    LET dateA == SortDate(a, dm)
        dateB == SortDate(b, dm)
    IN  IF dateA # JsNull /\ dateB # JsNull
        THEN IF SameGroup(a, b) THEN a.index - b.index ELSE dateB.days - dateA.days
        ELSE IF dateA = JsNull /\ dateB = JsNull
        THEN IF SameGroup(a, b) THEN a.index - b.index ELSE 0
        ELSE IF dateA = JsNull
        THEN IF placement = "start" THEN -1 ELSE 1
        ELSE IF placement = "start" THEN 1 ELSE -1

\* the comparator handed to toSorted
compareTabs(a, b, dm, placement) ==
    LET dateA == SortDate(a, dm)
        dateB == SortDate(b, dm)
    IN  IF dateA # JsNull /\ dateB # JsNull
        THEN IF SameGroup(a, b) THEN a.index - b.index ELSE dateA.days - dateB.days
        ELSE IF dateA = JsNull /\ dateB = JsNull
        THEN IF SameGroup(a, b) THEN a.index - b.index ELSE 0
        ELSE IF dateA = JsNull
        THEN IF placement = "start" THEN -1 ELSE 1
        ELSE IF placement = "start" THEN 1 ELSE -1

RECURSIVE Reverse(_)
Reverse(s) == IF s = <<>> THEN <<>> ELSE Append(Reverse(Tail(s)), Head(s))

\* a variant that overwrites the element at pos
InsertAtOverwrites(s, pos, x) == SubSeq(s, 1, pos - 1) \o <<x>> \o SubSeq(s, pos + 1, Len(s))

\* s with x put in front of position pos (1-based; Len(s) + 1 appends)
InsertAt(s, pos, x) == SubSeq(s, 1, pos - 1) \o <<x>> \o SubSeq(s, pos, Len(s))

(* SpiderMonkey sorts a short array by linear insertion: an item moves left
   past every element that compares greater than it. *)
RECURSIVE LinearPos(_, _, _, _, _)
LinearPos(sorted, item, j, dm, placement) ==
    IF j >= 1 /\ compareTabs(sorted[j], item, dm, placement) > 0
    THEN LinearPos(sorted, item, j - 1, dm, placement)
    ELSE j + 1

RECURSIVE LinearInsertionSort(_, _, _, _)
LinearInsertionSort(sorted, rest, dm, placement) ==
    IF rest = <<>> THEN sorted
    ELSE LinearInsertionSort(
             InsertAt(sorted, LinearPos(sorted, Head(rest), Len(sorted), dm, placement), Head(rest)),
             Tail(rest), dm, placement)

(* V8 sorts a short array by TimSort's first pass: it takes the leading run
   (reversed when strictly descending) and inserts the remaining elements by
   binary search. *)
RECURSIVE RunEnd(_, _, _, _, _)
\* the last position of the run that starts at 1, for Len(s) >= 2
RunEnd(s, idx, isDescending, dm, placement) ==
    IF idx > Len(s) THEN idx - 1
    ELSE LET order == compareTabs(s[idx], s[idx - 1], dm, placement)
         IN  IF (isDescending /\ order >= 0) \/ (~isDescending /\ order < 0)
             THEN idx - 1
             ELSE RunEnd(s, idx + 1, isDescending, dm, placement)

RECURSIVE BinaryPos(_, _, _, _, _, _)
\* left and right are 0-based, as in V8's BinaryInsertionSort
BinaryPos(work, pivot, left, right, dm, placement) ==
    IF left >= right THEN left
    ELSE LET mid == left + ((right - left) \div 2)
         IN  IF compareTabs(pivot, work[mid + 1], dm, placement) < 0
             THEN BinaryPos(work, pivot, left, mid, dm, placement)
             ELSE BinaryPos(work, pivot, mid + 1, right, dm, placement)

RECURSIVE BinaryInsertionSort(_, _, _, _)
BinaryInsertionSort(sorted, rest, dm, placement) ==
    IF rest = <<>> THEN sorted
    ELSE BinaryInsertionSort(
             InsertAt(sorted,
                      BinaryPos(sorted, Head(rest), 0, Len(sorted), dm, placement) + 1,
                      Head(rest)),
             Tail(rest), dm, placement)

\* a variant that also reverses a leading run of equal elements
TimSortShortReversesTies(s, dm, placement) ==
    IF Len(s) < 2 THEN s
    ELSE LET isDescending == compareTabs(s[2], s[1], dm, placement) <= 0
             runLength == RunEnd(s, 3, isDescending, dm, placement)
             run == SubSeq(s, 1, runLength)
         IN  BinaryInsertionSort(IF isDescending THEN Reverse(run) ELSE run,
                                 SubSeq(s, runLength + 1, Len(s)), dm, placement)

TimSortShort(s, dm, placement) ==
    IF Len(s) < 2 THEN s
    ELSE LET isDescending == compareTabs(s[2], s[1], dm, placement) < 0
             runLength == RunEnd(s, 3, isDescending, dm, placement)
             run == SubSeq(s, 1, runLength)
         IN  BinaryInsertionSort(IF isDescending THEN Reverse(run) ELSE run,
                                 SubSeq(s, runLength + 1, Len(s)), dm, placement)

Engines == {"v8", "spidermonkey"}

\* tabs.toSorted(comparator) on the given engine
toSorted(s, dm, placement, eng) ==
    IF eng = "v8" THEN TimSortShort(s, dm, placement)
    ELSE LinearInsertionSort(<<>>, s, dm, placement)

sortTabsByDate(ts, dm, placement, eng) == toSorted(ts, dm, placement, eng)

-----------------------------------------------------------------------------
(* Inputs of the pure functions *)

Placements == {"start", "end", "preserve"}

\* identifiers of the tabs, in window order: 7, 4, 8, 5, 9, 6
TabIdAt(i) == 3 + ((4 * i) % 7)

\* position of the i-th selected tab in its window
TabIndexAt(i) == 3 * i

\* the tab groups of the window
GroupIds == {1, 2}

\* the tab groups among the inputs of the pure functions
PureGroupIds == {1}

\* the tabs of a group are adjacent in the window, and group 2 follows group 1
GroupAssignments(n, groupIds) ==
    {g \in [1..n -> {TAB_GROUP_ID_NONE} \cup groupIds] :
        /\ \A i, j, k \in 1..n :
              (i < j /\ j < k /\ g[i] = g[k] /\ g[i] # TAB_GROUP_ID_NONE) => g[j] = g[i]
        /\ \A i \in 1..n : g[i] = 2 => \E j \in 1..(i - 1) : g[j] = 1}

MkTabs(n, g) ==
    [i \in 1..n |-> [id |-> TabIdAt(i), index |-> TabIndexAt(i), groupId |-> g[i]]]

D_2023_5_1 == MkDate(Num(2023), Num(5), Num(1))

D_2022_1_10 == MkDate(Num(2022), Num(1), Num(10))

D_2021_3_2 == MkDate(Num(2021), Num(3), Num(2))

\* individual dates as the external extension reports them
PureDates == {JsNull, D_2023_5_1, D_2022_1_10, D_2021_3_2}

T_work == <<"w", "o", "r", "k">>

T_2022_06_15 == <<"2", "0", "2", "2", "-", "0", "6", "-", "1", "5">>

\* group titles
PureTitles == {T_work, T_2022_06_15}

\* a date map as fetchTabDates is meant to build it: the group date of a grouped
\* tab is the date of its group's title
MkDateMap(ts, dates, titles) ==
    [id \in {ts[i].id : i \in 1..Len(ts)} |->
        LET i == CHOOSE j \in 1..Len(ts) : ts[j].id = id
        IN  [tabId |-> id,
             date |-> dates[i],
             groupId |-> JsNull,
             groupDate |-> IF ts[i].groupId = TAB_GROUP_ID_NONE THEN JsNull
                           ELSE extractDate(titles[ts[i].groupId])]]

-----------------------------------------------------------------------------
(* The pure functions applied to drawn inputs *)

\* inputs of at most maxN tabs
PureInputs(maxN) ==
    /\ mode = "pure"
    /\ \E n \in 0..maxN :
         \E g \in GroupAssignments(n, PureGroupIds), dates \in [1..n -> PureDates],
            titles \in [PureGroupIds -> PureTitles] :
            /\ \A k \in PureGroupIds : (\A i \in 1..n : g[i] # k) => titles[k] = T_work
            /\ tabs = MkTabs(n, g)
            /\ tabDataMap = MkDateMap(MkTabs(n, g), dates, titles)
    /\ undatedPlacement \in Placements
    /\ engine \in Engines
    /\ sortedTabs = <<>>
    /\ resortedTabs = <<>>
    /\ tabGroups = <<>>
    /\ pc = "input"
    /\ windowTabs = <<>>
    /\ groupLookups = <<>>
    /\ response = NoResponse
    /\ raised = FALSE
    /\ queryOk = FALSE
    /\ groupCalls = <<>>
    /\ flashed = "none"
    /\ timer = "none"
    /\ entryRaised = FALSE
    /\ maps = <<>>
    /\ calls = <<>>
    /\ dateCase = NoDateCase

PureInit == PureInputs(MaxTabs)

\* sortedTabs = sortTabsByDate(tabs, tabDataMap, undatedPlacement)
PureSort ==
    /\ mode = "pure" /\ pc = "input"
    /\ sortedTabs' = sortTabsByDate(tabs, tabDataMap, undatedPlacement, engine)
    /\ pc' = "sorted"
    /\ UNCHANGED <<auxVars, groupVars, mode, tabs, tabDataMap, undatedPlacement, engine, resortedTabs, tabGroups, runVars>>

\* sortTabsByDate(sortedTabs, tabDataMap, undatedPlacement)
PureSortAgain ==
    /\ mode = "pure" /\ pc = "sorted"
    /\ resortedTabs' = sortTabsByDate(sortedTabs, tabDataMap, undatedPlacement, engine)
    /\ pc' = "resorted"
    /\ UNCHANGED <<auxVars, groupVars, mode, tabs, tabDataMap, undatedPlacement, engine, sortedTabs, tabGroups, runVars>>

\* tabGroups = makeDateTabGroups(sortedTabs, tabDataMap)
PureBucket ==
    /\ mode = "pure" /\ pc = "sorted"
    /\ tabGroups' = makeDateTabGroups(sortedTabs, tabDataMap)
    /\ pc' = "bucketed"
    /\ UNCHANGED <<auxVars, groupVars, mode, tabs, tabDataMap, undatedPlacement, engine, sortedTabs, resortedTabs, runVars>>

PureNext == PureSort \/ PureSortAgain \/ PureBucket

PureSpec == PureInit /\ [][PureNext]_vars

\* the same functions on inputs of one more tab
WideInit == PureInputs(MaxTabs + 1)

WideSpec == WideInit /\ [][PureNext]_vars

-----------------------------------------------------------------------------
(* The same functions on dates in every representation a date field takes *)

MaxKeyTabs == 2

D_2024_3_2 == MkDate(Num(2024), Num(3), Num(2))

D_2024 == MkDate(Num(2024), JsNull, JsNull)

D_2024_1_1 == MkDate(Num(2024), Num(1), Num(1))

D_0_1_1 == MkDate(Num(0), Num(1), Num(1))

T_2024_03_02 == <<"2", "0", "2", "4", "-", "0", "3", "-", "0", "2">>

\* individual dates: numeric fields, absent month and day, a numeric year 0, and
\* string fields as the ParsedDate typedef declares them
KeyDates == {JsNull, D_2024_3_2, D_2024, D_2024_1_1, D_0_1_1, extractDate(T_2024_03_02)}

KeyTitles == {T_work, T_2024_03_02}

KeyInit ==
    /\ mode = "pure"
    /\ \E n \in 0..MaxKeyTabs :
         \E g \in GroupAssignments(n, PureGroupIds), dates \in [1..n -> KeyDates],
            titles \in [PureGroupIds -> KeyTitles] :
            /\ \A k \in PureGroupIds : (\A i \in 1..n : g[i] # k) => titles[k] = T_work
            /\ tabs = MkTabs(n, g)
            /\ tabDataMap = MkDateMap(MkTabs(n, g), dates, titles)
    /\ undatedPlacement \in Placements
    /\ engine \in Engines
    /\ sortedTabs = <<>>
    /\ resortedTabs = <<>>
    /\ tabGroups = <<>>
    /\ pc = "input"
    /\ windowTabs = <<>>
    /\ groupLookups = <<>>
    /\ response = NoResponse
    /\ raised = FALSE
    /\ queryOk = FALSE
    /\ groupCalls = <<>>
    /\ flashed = "none"
    /\ timer = "none"
    /\ entryRaised = FALSE
    /\ maps = <<>>
    /\ calls = <<>>
    /\ dateCase = NoDateCase

KeySpec == KeyInit /\ [][PureNext]_vars

-----------------------------------------------------------------------------
(* getComparableDate applied to drawn dates *)

\* years, among them 0 and years below 100
DateYears == {Num(0), Num(50), Num(100), Num(2024)}

DateMonths == {JsNull, Num(1), Num(2), Num(3), Num(12)}

DateDays == {JsNull, Num(1), Num(31)}

\* ParsedDate objects: numeric fields as the external extension sends them, a date
\* as extractDate captures it, a date without a year, and no date
DateInputs ==
    {MkDate(y, m, d) : y \in DateYears, m \in DateMonths, d \in DateDays}
    \cup {extractDate(T_2022_06_15), MkDate(JsNull, Num(3), Num(2)), JsNull}

DateInit ==
    /\ mode = "date"
    /\ \E a \in DateInputs, b \in DateInputs : dateCase = [NoDateCase EXCEPT !.a = a, !.b = b]
    /\ pc = "input"
    /\ tabs = <<>>
    /\ tabDataMap = <<>>
    /\ undatedPlacement = "end"
    /\ engine = "v8"
    /\ sortedTabs = <<>>
    /\ resortedTabs = <<>>
    /\ tabGroups = <<>>
    /\ windowTabs = <<>>
    /\ groupLookups = <<>>
    /\ response = NoResponse
    /\ raised = FALSE
    /\ queryOk = FALSE
    /\ groupCalls = <<>>
    /\ flashed = "none"
    /\ timer = "none"
    /\ entryRaised = FALSE
    /\ maps = <<>>
    /\ calls = <<>>

\* dateA = getComparableDate(a), dateB = getComparableDate(b)
CompareDates ==
    /\ mode = "date" /\ pc = "input"
    /\ dateCase' = [dateCase EXCEPT !.ca = getComparableDate(dateCase.a),
                                    !.cb = getComparableDate(dateCase.b)]
    /\ pc' = "compared"
    /\ UNCHANGED <<maps, calls, groupVars, mode, tabs, tabDataMap, undatedPlacement, engine,
                   sortedTabs, resortedTabs, tabGroups, runVars>>

DateNext == CompareDates

DateSpec == DateInit /\ [][DateNext]_vars

-----------------------------------------------------------------------------
(* One run of groupSelectedTabsByDate, through its awaits *)

RECURSIVE SortByIndex(_)
\* tabs.toSorted((a, b) => a.index - b.index): the indices of a window's tabs differ
SortByIndex(ts) ==
    IF ts = <<>> THEN <<>>
    ELSE LET m == CHOOSE i \in 1..Len(ts) : \A j \in 1..Len(ts) : ts[i].index <= ts[j].index
         IN  <<ts[m]>> \o SortByIndex(SubSeq(ts, 1, m - 1) \o SubSeq(ts, m + 1, Len(ts)))

\* the orders in which chrome.tabs.query may list the tabs
QueryResults(ts) == {ts, Reverse(ts)}

\* tabs.map((tab) => tab.groupId).filter((id) => id !== TAB_GROUP_ID_NONE), as a set
GroupIdsOf(ts) == {ts[i].groupId : i \in 1..Len(ts)} \ {TAB_GROUP_ID_NONE}

\* a variant without the catch: what is thrown leaves the function
TryCatchRethrows(thrown) == thrown

\* catch (error) { console.error(...) }: what is thrown in the try block goes no further
TryCatch(thrown) == FALSE

\* the loop of fetchTabGroupDates over tabInfoMap, once every lookup has resolved
AddGroupDates(infoMap, lookups) ==
    [id \in DOMAIN infoMap |->
        IF Truthy(infoMap[id].groupId) /\ ToNumber(infoMap[id].groupId) \in DOMAIN lookups
        THEN [infoMap[id] EXCEPT !.groupDate = extractDate(lookups[ToNumber(infoMap[id].groupId)].title)]
        ELSE infoMap[id]]

\* response && !response.error && Array.isArray(response.data)
ResponseUsable(resp) == resp.kind \in {"data", "nullitem"}

\* new Map(response.data.map((item) => [item.tabId, item])).get(id): the last item wins
LastItem(data, id) ==
    data[CHOOSE i \in 1..Len(data) :
            data[i].tabId = id /\ \A j \in (i + 1)..Len(data) : data[j].tabId # id]

\* a variant that builds the map from the response instead of merging into it
MergeFetchedReplacesMap(ts, infoMap, data) ==
    [id \in {data[i].tabId : i \in 1..Len(data)} |->
        [tabId |-> id, date |-> LastItem(data, id).date, groupId |-> JsNull, groupDate |-> JsNull]]

\* a variant that leaves the map as it was: the fetched records are dropped
MergeFetchedSkipped(ts, infoMap, data) == infoMap

\* the merge loop of fetchHeliotropiumDates: { ...existing, ...fetched }
MergeFetched(ts, infoMap, data) ==
    [id \in DOMAIN infoMap |->
        IF (\E k \in 1..Len(ts) : ts[k].id = id) /\ (\E i \in 1..Len(data) : data[i].tabId = id)
        THEN [infoMap[id] EXCEPT !.tabId = LastItem(data, id).tabId,
                                 !.date = LastItem(data, id).date]
        ELSE infoMap[id]]

\* an identifier of no selected tab: TabIdAt stays below it
ForeignTabId == TabIdAt(0) + 7

\* the dates the Heliotropium extension reports
ResponseDates == {D_2023_5_1, D_2022_1_10}

Absent == [absent |-> TRUE]

RECURSIVE ItemsOf(_, _, _)
\* the items of a response that reports pick[i] for the i-th tab
ItemsOf(ts, pick, i) ==
    IF i > Len(ts) THEN <<>>
    ELSE (IF pick[i] = Absent THEN <<>> ELSE <<[tabId |-> ts[i].id, date |-> pick[i]]>>)
         \o ItemsOf(ts, pick, i + 1)

\* what chrome.runtime.sendMessage may resolve with
Responses(ts) ==
    {[kind |-> k, data |-> <<>>] : k \in {"undefined", "boolean", "error", "nodata", "wrongtype", "nullitem"}}
    \cup {[kind |-> "data",
           data |-> ItemsOf(ts, pick, 1)
                    \o (IF extra THEN <<[tabId |-> ForeignTabId, date |-> D_2023_5_1]>> ELSE <<>>)] :
             pick \in [1..Len(ts) -> {Absent} \cup ResponseDates], extra \in BOOLEAN}

\* the tabs of the window as the host reports them: the first may be discarded,
\* its content unloaded and never loaded again during the run
MkRunTabs(n, g, firstDiscarded) ==
    [i \in 1..n |-> [id |-> TabIdAt(i), index |-> TabIndexAt(i), groupId |-> g[i],
                     discarded |-> (firstDiscarded /\ i = 1)]]

\* the reload waits that fetchTabDates has started, with their outcomes
\* ("pending", "loaded", "timeout"): it reloads no tab and starts no wait
ReloadWaits == <<>>

Init ==
    /\ mode = "run"
    /\ \E n \in 0..MaxRunTabs :
          \E g \in GroupAssignments(n, GroupIds), firstDiscarded \in BOOLEAN :
              /\ (n = 0 => ~firstDiscarded)
              /\ windowTabs = MkRunTabs(n, g, firstDiscarded)
    /\ engine \in Engines
    /\ tabs = <<>>
    /\ tabDataMap = <<>>
    /\ undatedPlacement = "start"
    /\ sortedTabs = <<>>
    /\ resortedTabs = <<>>
    /\ tabGroups = <<>>
    /\ groupLookups = <<>>
    /\ response = NoResponse
    /\ raised = FALSE
    /\ queryOk = FALSE
    /\ groupCalls = <<>>
    /\ flashed = "none"
    /\ timer = "none"
    /\ entryRaised = FALSE
    /\ maps = <<>>
    /\ calls = <<>>
    /\ dateCase = NoDateCase
    /\ pc = "start"

\* await setWorkingBadge(): a failing badge call is caught inside it
SetWorkingBadge ==
    /\ mode = "run" /\ pc = "start"
    /\ pc' = "query"
    /\ UNCHANGED <<auxVars, groupVars, mode, tabs, tabDataMap, engine, sortedTabs, tabGroups, pureVars, runVars>>

\* await getSelectedTabs(), the query resolving
GetSelectedTabs ==
    /\ mode = "run" /\ pc = "query"
    /\ \E result \in QueryResults(windowTabs) : tabs' = SortByIndex(result)
    /\ queryOk' = TRUE
    /\ pc' = "selected"
    /\ UNCHANGED <<auxVars, groupCalls, flashed, timer, entryRaised, mode, tabDataMap, engine, sortedTabs,
                   tabGroups, pureVars, runVars>>

\* await getSelectedTabs(), the query rejecting: caught, no tabs
GetSelectedTabsFails ==
    /\ mode = "run" /\ pc = "query"
    /\ tabs' = <<>>
    /\ pc' = "selected"
    /\ UNCHANGED <<auxVars, groupVars, mode, tabDataMap, engine, sortedTabs, tabGroups, pureVars, runVars>>

\* a variant with the threshold one higher
TooFewBelowThree(ts) == Len(ts) < 3

\* tabs.length < 2
TooFew(ts) == Len(ts) < 2

\* if (tabs.length < 2) { await flashBadge({ success: true }); return; }
TooFewTabs ==
    /\ mode = "run" /\ pc = "selected"
    /\ TooFew(tabs)
    /\ flashed' = "success"
    /\ pc' = "flashText"
    /\ UNCHANGED <<auxVars, queryOk, groupCalls, timer, entryRaised, mode, tabs, tabDataMap, engine, sortedTabs,
                   tabGroups, pureVars, runVars>>

\* fetchTabDates up to the first await: the empty map, and the group lookups issued
StartFetchTabDates ==
    /\ mode = "run" /\ pc = "selected"
    /\ ~TooFew(tabs)
    /\ tabDataMap' = createEmptyTabDataMap(tabs)
    /\ groupLookups' = [g \in GroupIdsOf(tabs) |-> [status |-> "pending", title |-> <<>>]]
    /\ pc' = IF GroupIdsOf(tabs) = {} THEN "heliotropium" ELSE "groupLookups"
    /\ UNCHANGED <<auxVars, groupVars, mode, tabs, engine, sortedTabs, tabGroups, pureVars, windowTabs, response, raised>>

\* chrome.tabGroups.get(id) resolves with the group and its title
TabGroupGetResolves ==
    /\ mode = "run" /\ pc = "groupLookups"
    /\ \E g \in DOMAIN groupLookups, title \in PureTitles :
          /\ groupLookups[g].status = "pending"
          /\ groupLookups' = [groupLookups EXCEPT ![g] = [status |-> "resolved", title |-> title]]
    /\ UNCHANGED <<auxVars, groupVars, mode, tabs, tabDataMap, engine, sortedTabs, tabGroups, pc, pureVars,
                   windowTabs, response, raised>>

\* chrome.tabGroups.get(id) rejects
TabGroupGetRejects ==
    /\ mode = "run" /\ pc = "groupLookups"
    /\ \E g \in DOMAIN groupLookups :
          /\ groupLookups[g].status = "pending"
          /\ groupLookups' = [groupLookups EXCEPT ![g] = [status |-> "rejected", title |-> <<>>]]
    /\ UNCHANGED <<auxVars, groupVars, mode, tabs, tabDataMap, engine, sortedTabs, tabGroups, pc, pureVars,
                   windowTabs, response, raised>>

AllResolved(lookups) == \A g \in DOMAIN lookups : lookups[g].status = "resolved"

AnyRejected(lookups) == \E g \in DOMAIN lookups : lookups[g].status = "rejected"

\* Promise.all settles: fulfilled once every lookup has resolved, rejected with the
\* first rejection; fetchTabGroupDates runs on to its end
FetchTabGroupDatesSettles ==
    /\ mode = "run" /\ pc = "groupLookups"
    /\ AllResolved(groupLookups) \/ AnyRejected(groupLookups)
    /\ tabDataMap' = IF AllResolved(groupLookups)
                     THEN AddGroupDates(tabDataMap, groupLookups)
                     ELSE tabDataMap
    /\ raised' = (raised \/ TryCatch(AnyRejected(groupLookups)))
    /\ pc' = "heliotropium"
    /\ UNCHANGED <<auxVars, groupVars, mode, tabs, engine, sortedTabs, tabGroups, pureVars, windowTabs,
                   groupLookups, response>>

\* the manifest names no Heliotropium extension: fetchHeliotropiumDates returns at once
HeliotropiumNotConfigured ==
    /\ mode = "run" /\ pc = "heliotropium"
    /\ response' = [kind |-> "noconfig", data |-> <<>>]
    /\ pc' = "resolved"
    /\ UNCHANGED <<auxVars, groupVars, mode, tabs, tabDataMap, engine, sortedTabs, tabGroups, pureVars,
                   windowTabs, groupLookups, raised>>

\* await chrome.runtime.sendMessage(extensionId, { action: 'get-dates', tabIds })
HeliotropiumSendMessage ==
    /\ mode = "run" /\ pc = "heliotropium"
    /\ pc' = "awaitResponse"
    /\ UNCHANGED <<auxVars, groupVars, mode, tabs, tabDataMap, engine, sortedTabs, tabGroups, pureVars, runVars>>

\* the message is answered: the merge, or the log of an unusable response
HeliotropiumResponds ==
    /\ mode = "run" /\ pc = "awaitResponse"
    /\ \E resp \in Responses(tabs) :
          /\ response' = resp
          /\ tabDataMap' = IF ResponseUsable(resp) /\ resp.kind # "nullitem"
                           THEN MergeFetched(tabs, tabDataMap, resp.data)
                           ELSE tabDataMap
          /\ raised' = (raised \/ TryCatch(resp.kind = "nullitem"))
    /\ pc' = "resolved"
    /\ UNCHANGED <<auxVars, groupVars, mode, tabs, engine, sortedTabs, tabGroups, pureVars, windowTabs, groupLookups>>

\* the message call rejects (the extension is not installed): caught
HeliotropiumRejects ==
    /\ mode = "run" /\ pc = "awaitResponse"
    /\ response' = [kind |-> "rejected", data |-> <<>>]
    /\ raised' = (raised \/ TryCatch(TRUE))
    /\ pc' = "resolved"
    /\ UNCHANGED <<auxVars, groupVars, mode, tabs, tabDataMap, engine, sortedTabs, tabGroups, pureVars,
                   windowTabs, groupLookups>>

\* the callback over one entry of tabGroups, run to its first await: an empty
\* bucket returns at once, any other has chrome.tabs.group({ tabIds }) in flight
StartGroupCall(entry) ==
    [status |-> IF entry.tabIds = <<>> THEN "done" ELSE "grouping",
     tabIds |-> entry.tabIds, groupId |-> 0, title |-> <<>>]

\* a variant that goes on to the title update for every bucket
AfterGroupTitlesAll(dateKey) == "updating"

\* if (dateKey !== 'undated') { await chrome.tabGroups.update(...) }: where the
\* callback stands once chrome.tabs.group has resolved
AfterGroup(dateKey) == IF dateKey # Undated THEN "updating" ELSE "done"

\* the identifier the host gives the group made from the b-th bucket: none of the window's
NewGroupId(b) == Cardinality(GroupIds) + b

AllDone(settled) == \A b \in 1..Len(settled) : settled[b].status = "done"

AnyFailed(settled) == \E b \in 1..Len(settled) : settled[b].status = "failed"

\* await Promise.all(groupPromises) with the callbacks in the states settled: while the
\* entry point waits there, the first rejection takes it to the catch block and
\* flashBadge({ success: false }), the last fulfilment to flashBadge({ success: true });
\* a callback that settles after the entry point has moved on changes nothing there
AwaitGroupPromises(settled) ==
    /\ groupCalls' = settled
    /\ IF pc \in {"resolved", "grouping"} /\ AnyFailed(settled)
       THEN /\ pc' = "flashText"
            /\ flashed' = "failure"
            /\ entryRaised' = (entryRaised \/ TryCatch(TRUE))
       ELSE IF pc \in {"resolved", "grouping"} /\ AllDone(settled)
       THEN /\ pc' = "flashText"
            /\ flashed' = "success"
            /\ UNCHANGED entryRaised
       ELSE /\ pc' = IF pc = "resolved" THEN "grouping" ELSE pc
            /\ UNCHANGED <<flashed, entryRaised>>

\* fetchTabDates has returned, its locals are gone: sortTabsByDate(tabs, tabDataMap, 'start'),
\* makeDateTabGroups, and the callbacks over the entries, each run to its first await
SortAndBucket ==
    /\ mode = "run" /\ pc = "resolved"
    /\ sortedTabs' = sortTabsByDate(tabs, tabDataMap, "start", engine)
    /\ tabGroups' = makeDateTabGroups(sortTabsByDate(tabs, tabDataMap, "start", engine), tabDataMap)
    /\ AwaitGroupPromises([b \in 1..Len(tabGroups') |-> StartGroupCall(tabGroups'[b])])
    /\ groupLookups' = <<>>
    /\ response' = NoResponse
    /\ UNCHANGED <<auxVars, queryOk, timer, mode, tabs, tabDataMap, engine, pureVars, windowTabs, raised>>

\* chrome.tabs.group({ tabIds }) resolves with the new group's id; for a dated
\* bucket the callback goes on to chrome.tabGroups.update(groupId, { title: dateKey })
TabsGroupResolves ==
    /\ mode = "run"
    /\ \E b \in 1..Len(groupCalls) :
          /\ groupCalls[b].status = "grouping"
          /\ AwaitGroupPromises([groupCalls EXCEPT
                 ![b].status = AfterGroup(tabGroups[b].key),
                 ![b].groupId = NewGroupId(b)])
    /\ UNCHANGED <<auxVars, queryOk, timer, mode, tabs, tabDataMap, engine, sortedTabs, tabGroups, pureVars, runVars>>

\* chrome.tabs.group({ tabIds }) rejects: the callback's promise rejects
TabsGroupRejects ==
    /\ mode = "run"
    /\ \E b \in 1..Len(groupCalls) :
          /\ groupCalls[b].status = "grouping"
          /\ AwaitGroupPromises([groupCalls EXCEPT ![b].status = "failed"])
    /\ UNCHANGED <<auxVars, queryOk, timer, mode, tabs, tabDataMap, engine, sortedTabs, tabGroups, pureVars, runVars>>

\* chrome.tabGroups.update(groupId, { title: dateKey }) resolves: the group has its title
TabGroupsUpdateResolves ==
    /\ mode = "run"
    /\ \E b \in 1..Len(groupCalls) :
          /\ groupCalls[b].status = "updating"
          /\ AwaitGroupPromises([groupCalls EXCEPT ![b].status = "done", ![b].title = tabGroups[b].key])
    /\ UNCHANGED <<auxVars, queryOk, timer, mode, tabs, tabDataMap, engine, sortedTabs, tabGroups, pureVars, runVars>>

\* chrome.tabGroups.update(groupId, { title: dateKey }) rejects
TabGroupsUpdateRejects ==
    /\ mode = "run"
    /\ \E b \in 1..Len(groupCalls) :
          /\ groupCalls[b].status = "updating"
          /\ AwaitGroupPromises([groupCalls EXCEPT ![b].status = "failed"])
    /\ UNCHANGED <<auxVars, queryOk, timer, mode, tabs, tabDataMap, engine, sortedTabs, tabGroups, pureVars, runVars>>

\* flashBadge: await chrome.action.setBadgeText({ text }) resolves
FlashBadgeTextResolves ==
    /\ mode = "run" /\ pc = "flashText"
    /\ pc' = "flashColor"
    /\ UNCHANGED <<auxVars, groupVars, mode, tabs, tabDataMap, engine, sortedTabs, tabGroups, pureVars, runVars>>

\* flashBadge: await chrome.action.setBadgeBackgroundColor({ color }) resolves, the
\* timer is set and the entry point returns
FlashBadgeColorResolves ==
    /\ mode = "run" /\ pc = "flashColor"
    /\ timer' = "scheduled"
    /\ pc' = "done"
    /\ UNCHANGED <<auxVars, queryOk, groupCalls, flashed, entryRaised, mode, tabs, tabDataMap, engine, sortedTabs,
                   tabGroups, pureVars, runVars>>

\* flashBadge: either badge call rejects, which its catch block logs; the entry point returns
FlashBadgeCallRejects ==
    /\ mode = "run" /\ pc \in {"flashText", "flashColor"}
    /\ entryRaised' = (entryRaised \/ TryCatch(TRUE))
    /\ pc' = "done"
    /\ UNCHANGED <<auxVars, queryOk, groupCalls, flashed, timer, mode, tabs, tabDataMap, engine, sortedTabs,
                   tabGroups, pureVars, runVars>>

\* the timer of flashBadge fires: await chrome.action.setBadgeText({ text: '' })
TimerFires ==
    /\ mode = "run" /\ timer = "scheduled"
    /\ timer' = "clearText"
    /\ UNCHANGED <<auxVars, queryOk, groupCalls, flashed, entryRaised, mode, tabs, tabDataMap, engine, sortedTabs,
                   tabGroups, pc, pureVars, runVars>>

\* the timer callback's badge call resolves: on to setBadgeBackgroundColor, then to its end
TimerCallResolves ==
    /\ mode = "run" /\ timer \in {"clearText", "clearColor"}
    /\ timer' = IF timer = "clearText" THEN "clearColor" ELSE "cleared"
    /\ UNCHANGED <<auxVars, queryOk, groupCalls, flashed, entryRaised, mode, tabs, tabDataMap, engine, sortedTabs,
                   tabGroups, pc, pureVars, runVars>>

\* the timer callback's badge call rejects: the callback has no try, its promise
\* rejects and nothing handles the rejection
TimerCallRejects ==
    /\ mode = "run" /\ timer \in {"clearText", "clearColor"}
    /\ timer' = "unhandledRejection"
    /\ UNCHANGED <<auxVars, queryOk, groupCalls, flashed, entryRaised, mode, tabs, tabDataMap, engine, sortedTabs,
                   tabGroups, pc, pureVars, runVars>>

Next ==
    \/ SetWorkingBadge
    \/ GetSelectedTabs
    \/ GetSelectedTabsFails
    \/ TooFewTabs
    \/ StartFetchTabDates
    \/ TabGroupGetResolves
    \/ TabGroupGetRejects
    \/ FetchTabGroupDatesSettles
    \/ HeliotropiumNotConfigured
    \/ HeliotropiumSendMessage
    \/ HeliotropiumResponds
    \/ HeliotropiumRejects
    \/ SortAndBucket
    \/ TabsGroupResolves
    \/ TabsGroupRejects
    \/ TabGroupsUpdateResolves
    \/ TabGroupsUpdateRejects
    \/ FlashBadgeTextResolves
    \/ FlashBadgeColorResolves
    \/ FlashBadgeCallRejects
    \/ TimerFires
    \/ TimerCallResolves
    \/ TimerCallRejects

Spec == Init /\ [][Next]_vars

-----------------------------------------------------------------------------
(* Two invocations of groupSelectedTabsByDate interleaved at their awaits *)

Invocations == {1, 2}

\* a variant that keeps one Map for every call, as a module-level cache would
SharedMapRef(objects) == 1

\* new Map(...): an object that did not exist before
NewMapRef(objects) == Len(objects) + 1

\* an invocation that has not yet got its tabs
NewCall == [pc |-> "query", tabs |-> <<>>, ref |-> 0, sorted |-> <<>>, groups |-> <<>>]

\* what the group lookups of an invocation come to: a rejection, or a title for every group
LookupOutcomes(ts) ==
    {<<>>} \cup {[g \in GroupIdsOf(ts) |-> [status |-> "resolved", title |-> titles[g]]] :
                    titles \in [GroupIdsOf(ts) -> PureTitles]}

\* what the Heliotropium extension answers an invocation: nothing usable, a date
\* for the first tab, or a date for every tab
PairResponses(ts) ==
    {[kind |-> "undefined", data |-> <<>>],
     [kind |-> "data", data |-> <<[tabId |-> ts[1].id, date |-> D_2022_1_10]>>],
     [kind |-> "data", data |-> [i \in 1..Len(ts) |-> [tabId |-> ts[i].id, date |-> D_2023_5_1]]]}

PairInit ==
    /\ mode = "pair"
    /\ \E n \in 2..MaxRunTabs : \E g \in GroupAssignments(n, GroupIds) : windowTabs = MkTabs(n, g)
    /\ engine \in Engines
    /\ maps = <<>>
    /\ calls = [p \in Invocations |-> NewCall]
    /\ pc = "pair"
    /\ tabs = <<>>
    /\ tabDataMap = <<>>
    /\ undatedPlacement = "start"
    /\ sortedTabs = <<>>
    /\ resortedTabs = <<>>
    /\ tabGroups = <<>>
    /\ groupLookups = <<>>
    /\ response = NoResponse
    /\ raised = FALSE
    /\ queryOk = FALSE
    /\ groupCalls = <<>>
    /\ flashed = "none"
    /\ timer = "none"
    /\ entryRaised = FALSE
    /\ dateCase = NoDateCase

PairFrame ==
    UNCHANGED <<dateCase, groupVars, mode, tabs, tabDataMap, engine, sortedTabs, tabGroups, pc,
                pureVars, runVars>>

\* invocation p gets its tabs and enters fetchTabDates: createEmptyTabDataMap, then
\* fetchTabGroupDates to its await, or with no group fetchHeliotropiumDates to its await
PairStartFetch(p) ==
    /\ mode = "pair" /\ calls[p].pc = "query"
    /\ LET ts  == SortByIndex(windowTabs)
           ref == NewMapRef(maps)
       IN  /\ maps' = [r \in (DOMAIN maps) \cup {ref} |->
                          IF r = ref THEN createEmptyTabDataMap(ts) ELSE maps[r]]
           /\ calls' = [calls EXCEPT ![p].tabs = ts,
                                     ![p].ref = ref,
                                     ![p].pc = IF GroupIdsOf(ts) = {} THEN "awaitResponse"
                                               ELSE "groupLookups"]
    /\ PairFrame

\* Promise.all of invocation p's group lookups settles; fetchTabGroupDates runs to its
\* end and fetchHeliotropiumDates to its await
PairGroupDatesSettle(p) ==
    /\ mode = "pair" /\ calls[p].pc = "groupLookups"
    /\ \E lookups \in LookupOutcomes(calls[p].tabs) :
          maps' = [maps EXCEPT ![calls[p].ref] =
                      IF lookups = <<>> THEN @ ELSE AddGroupDates(@, lookups)]
    /\ calls' = [calls EXCEPT ![p].pc = "awaitResponse"]
    /\ PairFrame

\* invocation p's message is answered: the merge; fetchTabDates returns the map
PairResponds(p) ==
    /\ mode = "pair" /\ calls[p].pc = "awaitResponse"
    /\ \E resp \in PairResponses(calls[p].tabs) :
          maps' = [maps EXCEPT ![calls[p].ref] =
                      IF ResponseUsable(resp) THEN MergeFetched(calls[p].tabs, @, resp.data) ELSE @]
    /\ calls' = [calls EXCEPT ![p].pc = "resolved"]
    /\ PairFrame

\* invocation p sorts and buckets with the map it was returned
PairSortAndBucket(p) ==
    /\ mode = "pair" /\ calls[p].pc = "resolved"
    /\ LET dm == maps[calls[p].ref]
           sorted == sortTabsByDate(calls[p].tabs, dm, "start", engine)
       IN  calls' = [calls EXCEPT ![p].sorted = sorted,
                                  ![p].groups = makeDateTabGroups(sorted, dm),
                                  ![p].pc = "bucketed"]
    /\ UNCHANGED maps
    /\ PairFrame

PairNext ==
    \E p \in Invocations :
        \/ PairStartFetch(p)
        \/ PairGroupDatesSettle(p)
        \/ PairResponds(p)
        \/ PairSortAndBucket(p)

PairSpec == PairInit /\ [][PairNext]_vars

-----------------------------------------------------------------------------
(* Properties *)

TabIdsOf(ts) == {ts[i].id : i \in 1..Len(ts)}

\* the position of tab t in s
Pos(s, t) == CHOOSE i \in 1..Len(s) : s[i] = t

\* the number of times x occurs in s
Occ(s, x) == Cardinality({i \in 1..Len(s) : s[i] = x})

\* the sorter derives a date for tab t
Dated(t) == SortDate(t, tabDataMap) # JsNull

DaysOf(t) == SortDate(t, tabDataMap).days

\* the places <<bucket, position>> of a bucket map
Slots(groups) ==
    UNION {{<<b, k>> : k \in 1..Len(groups[b].tabIds)} : b \in 1..Len(groups)}

\* C1: the buckets of makeDateTabGroups partition the identifiers of its input:
\* every input identifier fills exactly one place of one bucket, every place
\* holds an input identifier, and no two buckets share a key.
C1_BucketsPartitionInput ==
    pc = "bucketed" =>
        /\ \A i \in 1..Len(sortedTabs) :
              Cardinality({sl \in Slots(tabGroups) :
                              tabGroups[sl[1]].tabIds[sl[2]] = sortedTabs[i].id}) = 1
        /\ \A sl \in Slots(tabGroups) :
              tabGroups[sl[1]].tabIds[sl[2]] \in TabIdsOf(sortedTabs)
        /\ \A b, c \in 1..Len(tabGroups) : tabGroups[b].key = tabGroups[c].key => b = c

C1_Witness ==
    /\ pc = "bucketed"
    /\ Len(sortedTabs) >= 3
    /\ Len(tabGroups) >= 2
    /\ tabGroups[1].key = Undated
    /\ \E b \in 1..Len(tabGroups) : Len(tabGroups[b].tabIds) >= 2

\* C2: the result of sortTabsByDate is a permutation of its input: the same
\* length, and every tab as often as in the input.
C2_SortIsPermutation ==
    pc = "sorted" =>
        /\ Len(sortedTabs) = Len(tabs)
        /\ \A i \in 1..Len(tabs) : Occ(sortedTabs, tabs[i]) = Occ(tabs, tabs[i])

C2_Witness ==
    /\ pc = "sorted"
    /\ Len(tabs) >= 3
    /\ sortedTabs # tabs

\* C3: sorting the result of sortTabsByDate again, with the same date map and
\* placement, returns it unchanged.
C3_SortIsIdempotent ==
    pc = "resorted" => resortedTabs = sortedTabs

C3_Witness ==
    /\ pc = "resorted"
    /\ Len(tabs) >= 3
    /\ sortedTabs # tabs
    /\ resortedTabs = sortedTabs

\* C4: two tabs of one non-empty group that are both dated or both undated keep
\* their original relative order (lower index first) in the sorted result.
C4_GroupOrderKept ==
    pc = "sorted" =>
        \A i, j \in 1..Len(tabs) :
            (/\ tabs[i].index < tabs[j].index
             /\ SameGroup(tabs[i], tabs[j])
             /\ (Dated(tabs[i]) <=> Dated(tabs[j])))
            => Pos(sortedTabs, tabs[i]) < Pos(sortedTabs, tabs[j])

Orders == {p \in [1..Len(tabs) -> 1..Len(tabs)] : \A i, j \in 1..Len(tabs) : p[i] = p[j] => i = j}

\* an input for which no order of the tabs both keeps the dated tabs of a group
\* in index order and puts the dated tabs of different dates that share no group
\* in date order: two tabs of a group dated later
\* then earlier, beside an ungrouped tab dated in between
C5_NoOrderMeetsBoth ==
    /\ pc = "input"
    /\ \A p \in Orders :
          \E i, j \in 1..Len(tabs) :
              /\ Dated(tabs[i]) /\ Dated(tabs[j])
              /\ p[j] < p[i]
              /\ \/ SameGroup(tabs[i], tabs[j]) /\ tabs[i].index < tabs[j].index
                 \/ ~SameGroup(tabs[i], tabs[j]) /\ DaysOf(tabs[i]) < DaysOf(tabs[j])

\* the dated tabs of each non-empty group have one and the same date
GroupsShareDate ==
    \A i, j \in 1..Len(tabs) :
        (SameGroup(tabs[i], tabs[j]) /\ Dated(tabs[i]) /\ Dated(tabs[j]))
        => DaysOf(tabs[i]) = DaysOf(tabs[j])

ScenarioTabs ==
    /\ Len(tabs) = 3
    /\ \A i \in 1..3 : tabs[i].groupId = TAB_GROUP_ID_NONE
    /\ tabDataMap[tabs[1].id].date = JsNull
    /\ tabDataMap[tabs[2].id].date = D_2023_5_1
    /\ tabDataMap[tabs[3].id].date = D_2022_1_10

\* C7: under 'start' every undated tab precedes every dated tab, under 'end'
\* every undated tab follows every dated tab, and the scenario sorts to
\* [T1, T3, T2] under 'start'.
C7_StartAndEndPlaceUndated ==
    pc = "sorted" =>
        /\ undatedPlacement = "start" =>
              \A i, j \in 1..Len(tabs) :
                  (~Dated(tabs[i]) /\ Dated(tabs[j]))
                  => Pos(sortedTabs, tabs[i]) < Pos(sortedTabs, tabs[j])
        /\ undatedPlacement = "end" =>
              \A i, j \in 1..Len(tabs) :
                  (~Dated(tabs[i]) /\ Dated(tabs[j]))
                  => Pos(sortedTabs, tabs[j]) < Pos(sortedTabs, tabs[i])
        /\ (undatedPlacement = "start" /\ ScenarioTabs) =>
              sortedTabs = <<tabs[1], tabs[3], tabs[2]>>

C7_Witness ==
    /\ pc = "sorted"
    /\ undatedPlacement = "start"
    /\ ScenarioTabs
    /\ sortedTabs = <<tabs[1], tabs[3], tabs[2]>>

\* fetchTabDates has returned
Resolved == mode = "run" /\ pc = "resolved"

\* the collaborator is absent, the message call rejected, or the response is malformed
NoDataKinds ==
    {"noconfig", "rejected", "undefined", "boolean", "error", "nodata", "wrongtype", "nullitem"}

\* C8: fetchTabDates never raises and returns a map with one record for every
\* input tab, and only those; when the collaborator is absent, the message call
\* rejects or the response is malformed, every record has a null individual date.
C8_ResolveNeverRaises ==
    Resolved =>
        /\ ~raised
        /\ DOMAIN tabDataMap = TabIdsOf(tabs)
        /\ \A id \in TabIdsOf(tabs) : tabDataMap[id].tabId = id
        /\ response.kind \in NoDataKinds =>
              \A id \in TabIdsOf(tabs) : tabDataMap[id].date = JsNull

C8_Witness ==
    /\ Resolved
    /\ response.kind = "rejected"
    /\ AnyRejected(groupLookups)
    /\ Len(tabs) >= 2
    /\ \A id \in TabIdsOf(tabs) : tabDataMap[id].date = JsNull

\* C9: after a well-formed response the record of each tab the response names
\* holds the returned date, each tab it does not name keeps a null date, and the
\* map holds no record for an identifier that is not an input tab's.
C9_PartialResponseMerged ==
    (Resolved /\ response.kind = "data") =>
        /\ DOMAIN tabDataMap = TabIdsOf(tabs)
        /\ \A id \in TabIdsOf(tabs) :
              /\ \A k \in 1..Len(response.data) :
                    response.data[k].tabId = id => tabDataMap[id].date = response.data[k].date
              /\ (\A k \in 1..Len(response.data) : response.data[k].tabId # id)
                    => tabDataMap[id].date = JsNull

C9_Witness ==
    /\ Resolved
    /\ response.kind = "data"
    /\ \E k \in 1..Len(response.data) : response.data[k].tabId = ForeignTabId
    /\ \E id \in TabIdsOf(tabs) :
          \E k \in 1..Len(response.data) :
              response.data[k].tabId = id /\ tabDataMap[id].date = response.data[k].date
    /\ \E id \in TabIdsOf(tabs) :
          /\ \A k \in 1..Len(response.data) : response.data[k].tabId # id
          /\ tabDataMap[id].date = JsNull

\* C10: once fetchTabDates has returned with every group lookup resolved, every
\* tab of a group whose title holds a YYYY-MM-DD date has that date as its
\* group-level date.
C10_GroupDateSet ==
    (Resolved /\ AllResolved(groupLookups)) =>
        \A i \in 1..Len(tabs) :
            (/\ tabs[i].groupId # TAB_GROUP_ID_NONE
             /\ extractDate(groupLookups[tabs[i].groupId].title) # JsNull)
            => tabDataMap[tabs[i].id].groupDate
                   = extractDate(groupLookups[tabs[i].groupId].title)

\* C11: when a group lookup has failed, fetchTabDates still returns without
\* raising, no record holds a group date, the message to the Heliotropium
\* extension has still been sent and settled, and the dates of a well-formed
\* response are merged into the map.
C11_GroupLookupFailureIsSoft ==
    (Resolved /\ AnyRejected(groupLookups)) =>
        /\ ~raised
        /\ \A id \in TabIdsOf(tabs) : tabDataMap[id].groupDate = JsNull
        /\ response # NoResponse
        /\ response.kind = "data" =>
              \A id \in TabIdsOf(tabs) :
                  \A k \in 1..Len(response.data) :
                      response.data[k].tabId = id => tabDataMap[id].date = response.data[k].date

C11_Witness ==
    /\ Resolved
    /\ \E g \in DOMAIN groupLookups : groupLookups[g].status = "rejected"
    /\ \E g \in DOMAIN groupLookups :
          groupLookups[g].status = "resolved" /\ groupLookups[g].title = T_2022_06_15
    /\ response.kind = "data"
    /\ \E id \in TabIdsOf(tabs) : tabDataMap[id].date = D_2022_1_10
    /\ \A id \in TabIdsOf(tabs) : tabDataMap[id].groupDate = JsNull

\* the message to the Heliotropium extension has been sent
RequestIssued == mode = "run" /\ pc \in {"awaitResponse", "resolved"} /\ response.kind # "noconfig"

\* C12: once the request to the external extension has been issued, the reload
\* wait of every selected tab that was not loaded has settled, by the
\* load-complete notification or by the timeout.
C12_RequestAfterReloadWaits ==
    RequestIssued =>
        \A i \in 1..Len(tabs) :
            tabs[i].discarded =>
                /\ tabs[i].id \in DOMAIN ReloadWaits
                /\ ReloadWaits[tabs[i].id] \in {"loaded", "timeout"}

Completed == mode = "run" /\ pc = "done"

\* the selected tabs have been sorted and every one of them filed in one bucket
SortedAndBucketed ==
    /\ Len(sortedTabs) = Len(tabs)
    /\ \A i \in 1..Len(tabs) :
          Cardinality({sl \in Slots(tabGroups) :
                          tabGroups[sl[1]].tabIds[sl[2]] = tabs[i].id}) = 1

\* no await of the invocation waits for nothing: while it waits for the group
\* lookups or for the callbacks over the buckets, a host call of theirs is in
\* flight or their outcome is ready to be taken up
NeverStuck ==
    /\ pc = "groupLookups" =>
          \/ \E g \in DOMAIN groupLookups : groupLookups[g].status = "pending"
          \/ AllResolved(groupLookups) \/ AnyRejected(groupLookups)
    /\ pc = "grouping" =>
          \E b \in 1..Len(groupCalls) : groupCalls[b].status \in {"grouping", "updating"}
    /\ pc \in {"start", "query", "selected", "groupLookups", "heliotropium", "awaitResponse",
               "resolved", "grouping", "flashText", "flashColor", "done"}

\* C15 as stated: no exception leaves groupSelectedTabsByDate whichever host
\* calls fail, the invocation can always go on until it has returned, and
\* whenever the tab query succeeded the tabs have been sorted and bucketed by
\* the time it returns.
C15_SortedWheneverQueryOk ==
    mode = "run" =>
        /\ ~entryRaised /\ ~raised
        /\ NeverStuck
        /\ (Completed /\ queryOk) => SortedAndBucketed

\* C15, amended: as above, with sorting and bucketing carried out whenever the
\* tab query succeeded with at least 2 selected tabs.
C15_SortedWheneverTwoSelected ==
    mode = "run" =>
        /\ ~entryRaised /\ ~raised
        /\ NeverStuck
        /\ (Completed /\ queryOk /\ Len(tabs) >= 2) => SortedAndBucketed

C15_Witness ==
    /\ Completed /\ queryOk /\ Len(tabs) >= 2
    /\ SortedAndBucketed
    /\ \A id \in TabIdsOf(tabs) : tabDataMap[id].date = JsNull
    /\ AnyFailed(groupCalls)
    /\ flashed = "failure"
    /\ timer = "none"
    /\ ~entryRaised

\* getComparableDate has been applied to the two drawn dates
Compared == mode = "date" /\ pc = "compared"

\* C16: getComparableDate of a date with a year and null month and day equals
\* getComparableDate of the same year with month 1 and day 1; it returns null
\* exactly when the date is null or its year is null.
C16_YearOnlyIsJanuaryFirst ==
    Compared =>
        /\ (dateCase.ca = JsNull) <=> (dateCase.a = JsNull \/ dateCase.a.year = JsNull)
        /\ (/\ dateCase.a # JsNull /\ dateCase.b # JsNull
            /\ dateCase.a.year # JsNull /\ dateCase.a.year = dateCase.b.year
            /\ dateCase.a.month = JsNull /\ dateCase.a.day = JsNull
            /\ dateCase.b.month = Num(1) /\ dateCase.b.day = Num(1))
           => dateCase.ca = dateCase.cb

C16_Witness ==
    /\ Compared
    /\ dateCase.a = MkDate(Num(2024), JsNull, JsNull)
    /\ dateCase.b = MkDate(Num(2024), Num(1), Num(1))
    /\ dateCase.ca # JsNull
    /\ dateCase.ca = dateCase.cb

\* year, month and day are numbers
FullNumericDate(d) ==
    /\ d # JsNull
    /\ d.year.t = "num" /\ d.month.t = "num" /\ d.day.t = "num"

\* (year, month, day) of d comes before that of e
LexBefore(d, e) ==
    \/ d.year.n < e.year.n
    \/ d.year.n = e.year.n /\ d.month.n < e.month.n
    \/ d.year.n = e.year.n /\ d.month.n = e.month.n /\ d.day.n < e.day.n

\* C17: for dates with a non-negative year, a month of 1..12 and a day of 1..31,
\* the value of the first is below the value of the second exactly when its
\* (year, month, day) is lexicographically smaller.
C17_OrderIsChronological ==
    (Compared /\ FullNumericDate(dateCase.a) /\ FullNumericDate(dateCase.b)) =>
        (dateCase.ca.days < dateCase.cb.days <=> LexBefore(dateCase.a, dateCase.b))

\* the record of tab t holds neither a group date nor an individual date with a year
LacksDate(t) ==
    /\ tabDataMap[t.id].groupDate = JsNull
    /\ tabDataMap[t.id].date = JsNull \/ tabDataMap[t.id].date.year = JsNull

HasUndatedKey == \E b \in 1..Len(tabGroups) : tabGroups[b].key = Undated

HasBothDates(t) == tabDataMap[t.id].groupDate # JsNull /\ tabDataMap[t.id].date # JsNull

\* the date the claim gives tab t: the group date, the individual date without one
ClaimedDate(t) ==
    IF tabDataMap[t.id].groupDate # JsNull THEN tabDataMap[t.id].groupDate
    ELSE tabDataMap[t.id].date

\* the key of the bucket that holds tab t
KeyHolding(t) ==
    tabGroups[CHOOSE b \in 1..Len(tabGroups) :
                 \E k \in 1..Len(tabGroups[b].tabIds) : tabGroups[b].tabIds[k] = t.id].key

\* C19: a tab with a group date and an individual date is sorted and bucketed by
\* its group date: it is filed under the key of the group date, and it stands
\* before or after a dated tab outside its group as the group date is earlier or
\* later than that tab's date; a tab without a group date is filed under the key
\* of its individual date.
C19_GroupDateTakesPrecedence ==
    pc = "bucketed" =>
        \A i \in 1..Len(tabs) :
            /\ HasBothDates(tabs[i]) =>
                  /\ KeyHolding(tabs[i]) = DateKey(tabDataMap[tabs[i].id].groupDate)
                  /\ \A j \in 1..Len(tabs) :
                        (/\ ~SameGroup(tabs[i], tabs[j])
                         /\ ClaimedDate(tabs[j]) # JsNull)
                        => LET di == getComparableDate(ClaimedDate(tabs[i])).days
                               dj == getComparableDate(ClaimedDate(tabs[j])).days
                           IN  /\ di < dj => Pos(sortedTabs, tabs[i]) < Pos(sortedTabs, tabs[j])
                               /\ dj < di => Pos(sortedTabs, tabs[j]) < Pos(sortedTabs, tabs[i])
            /\ (tabDataMap[tabs[i].id].groupDate = JsNull /\ tabDataMap[tabs[i].id].date # JsNull)
                  => KeyHolding(tabs[i]) = DateKey(tabDataMap[tabs[i].id].date)

C19_Witness ==
    /\ pc = "bucketed"
    /\ \E i, j \in 1..Len(tabs) :
          /\ HasBothDates(tabs[i])
          /\ tabDataMap[tabs[i].id].date = D_2021_3_2
          /\ tabs[j].groupId = TAB_GROUP_ID_NONE
          /\ tabDataMap[tabs[j].id].date = D_2022_1_10
          /\ i < j
          /\ Pos(sortedTabs, tabs[j]) < Pos(sortedTabs, tabs[i])
          /\ KeyHolding(tabs[i]) = T_2022_06_15

\* invocation p is inside fetchTabDates, at one of its awaits
Resolving(p) == calls[p].pc \in {"groupLookups", "awaitResponse"}

\* C20: every invocation has a map of its own; the map of an invocation changes
\* only in a step of that invocation's own fetchTabDates, never in a step of
\* the other invocation and never after fetchTabDates has returned it.
C20_MapWrittenOnlyByItsResolve ==
    [][mode = "pair" =>
          /\ \A p, q \in Invocations :
                (p # q /\ calls'[p].ref # 0 /\ calls'[q].ref # 0) => calls'[p].ref # calls'[q].ref
          /\ \A p \in Invocations :
                (calls[p].ref # 0 /\ maps'[calls[p].ref] # maps[calls[p].ref])
                => (Resolving(p) /\ calls'[p].pc # calls[p].pc)]_vars

C20_Witness ==
    /\ mode = "pair"
    /\ calls[1].pc = "bucketed"
    /\ calls[2].pc = "awaitResponse"
    /\ calls[1].ref # calls[2].ref
    /\ \E id \in DOMAIN maps[calls[1].ref] :
          /\ maps[calls[1].ref][id].date = D_2023_5_1
          /\ maps[calls[2].ref][id].date = JsNull

\* a field as it stands in a record: a number as its decimal numeral, a string as it is
Literal(v) == IF v.t = "num" THEN NatToChars(v.n) ELSE v.s

OneChar == <<"1">>

\* the text of a month or day: the field's, "1" for an absent field
FieldOrOne(v) == IF v = JsNull THEN OneChar ELSE Literal(v)

C22_BucketKeepsInputOrder ==
    pc = "bucketed" =>
        \A b \in 1..Len(tabGroups) :
            \A k, l \in 1..Len(tabGroups[b].tabIds) :
                k < l =>
                    \E i, j \in 1..Len(sortedTabs) :
                        /\ i < j
                        /\ sortedTabs[i].id = tabGroups[b].tabIds[k]
                        /\ sortedTabs[j].id = tabGroups[b].tabIds[l]

C22_Witness ==
    /\ pc = "bucketed"
    /\ Len(sortedTabs) = 3
    /\ sortedTabs # tabs
    /\ \E b \in 1..Len(tabGroups) :
          /\ tabGroups[b].key # Undated
          /\ Len(tabGroups[b].tabIds) = 2
          /\ tabGroups[b].tabIds[1] > tabGroups[b].tabIds[2]

\* the sign of a comparator result
Sign(x) == IF x < 0 THEN -1 ELSE IF x > 0 THEN 1 ELSE 0

\* cmp(a, b) of the sort in progress
Cmp(a, b) == compareTabs(a, b, tabDataMap, undatedPlacement)

\* swapping the arguments of the comparator flips the sign of its result
CmpAntisymmetric ==
    \A i, j \in 1..Len(tabs) : Sign(Cmp(tabs[i], tabs[j])) = -Sign(Cmp(tabs[j], tabs[i]))

\* C23: the comparator of sortTabsByDate is a consistent ordering of the tabs it
\* sorts: swapping its arguments flips the sign of its result, and when a does
\* not follow b and b does not follow c, a does not follow c.
C23_ComparatorIsConsistent ==
    pc = "sorted" =>
        /\ CmpAntisymmetric
        /\ \A i, j, k \in 1..Len(tabs) :
              (Cmp(tabs[i], tabs[j]) <= 0 /\ Cmp(tabs[j], tabs[k]) <= 0)
              => Cmp(tabs[i], tabs[k]) <= 0

\* C24: the sorter and makeDateTabGroups agree on which tabs are dated: the
\* sorter derives a date for a tab exactly when the tab is filed under a key
\* other than 'undated'.
C24_SorterAndBucketAgreeOnDated ==
    pc = "bucketed" =>
        \A i \in 1..Len(tabs) : Dated(tabs[i]) <=> KeyHolding(tabs[i]) # Undated

\* C25: two tabs whose effective dates are equal for the sorter are filed under
\* one key, whatever the representation of their date fields.
C25_EqualDatesShareBucket ==
    pc = "bucketed" =>
        \A i, j \in 1..Len(tabs) :
            (Dated(tabs[i]) /\ Dated(tabs[j]) /\ DaysOf(tabs[i]) = DaysOf(tabs[j]))
            => KeyHolding(tabs[i]) = KeyHolding(tabs[j])

\* the grouping calls chrome.tabs.group({ tabIds }) issued so far
IssuedCalls == {b \in 1..Len(groupCalls) : groupCalls[b].tabIds # <<>>}

\* the title update of bucket b has been issued
UpdateIssued(b) == groupCalls[b].status = "updating" \/ groupCalls[b].title # <<>>

\* C26: with fewer than 2 selected tabs no grouping call is issued.  Otherwise,
\* once the callbacks over the buckets have started, every selected tab
\* identifier is in the argument of exactly one grouping call; a title update is
\* issued only for a bucket whose grouping call has returned its group id, never
\* for the 'undated' bucket, and the title it sets is the bucket's date key; and
\* when no host call has failed and the run has ended, the group of every
\* dated bucket has the date key as its title.
C26_GroupCallsAndTitles ==
    mode = "run" =>
        /\ Len(tabs) < 2 => groupCalls = <<>>
        /\ groupCalls # <<>> =>
              \A i \in 1..Len(tabs) :
                  Cardinality({sl \in Slots(groupCalls) : sl[1] \in IssuedCalls
                                  /\ groupCalls[sl[1]].tabIds[sl[2]] = tabs[i].id}) = 1
        /\ \A b \in 1..Len(groupCalls) :
              /\ UpdateIssued(b) =>
                    /\ groupCalls[b].groupId = NewGroupId(b)
                    /\ tabGroups[b].key # Undated
              /\ groupCalls[b].title # <<>> => groupCalls[b].title = tabGroups[b].key
        /\ (Completed /\ flashed = "success" /\ ~entryRaised) =>
              \A b \in 1..Len(groupCalls) :
                  /\ groupCalls[b].groupId = NewGroupId(b)
                  /\ tabGroups[b].key # Undated => groupCalls[b].title = tabGroups[b].key

C26_Witness ==
    /\ Completed /\ flashed = "success" /\ ~entryRaised
    /\ Len(tabs) = 2
    /\ Len(groupCalls) = 2
    /\ tabGroups[1].key = Undated /\ groupCalls[1].title = <<>> /\ groupCalls[1].groupId # 0
    /\ tabGroups[2].key # Undated /\ groupCalls[2].title = tabGroups[2].key

====
